---- MODULE Spec2Model ----
(***************************************************************************)
(* A model of gatewayd's proxy data path: network/proxy.go (ProxyImpl) and *)
(* the upstream Client it brokers.  Each inbound connection is served by   *)
(* the event loop that owns it, so the handlers of one inbound are         *)
(* sequential while the handlers of different inbounds interleave.         *)
(*                                                                         *)
(* The Pool (NewPool, Put, Pop, ClientIDs) is called by proxy.go but its   *)
(* implementation is not among the sources; it is modelled from section    *)
(* 4.2 of the specification: a thread-safe keyed container whose Put       *)
(* rejects duplicates and whose Pop removes and returns, or signals        *)
(* "absent".                                                               *)
(*                                                                         *)
(* The model also holds the hook engine (HookConfig: AddHook, verify,      *)
(* RunHooks) and the Client record with its Close.  The callbacks that the *)
(* server hands to PassThrough are not among the sources either; following *)
(* section 4.7 of the specification they run the hooks of their hook point *)
(* on the envelope of the traffic.                                         *)
(***************************************************************************)
EXTENDS Integers, Sequences, FiniteSets, TLC

VARIABLES
    Elastic,        \* ProxyImpl.Elastic
    ReuseElasticClients, \* ProxyImpl.ReuseElasticClients
    PoolSize,       \* ProxyImpl.PoolSize
    pool,           \* ProxyImpl.pool: the ids of the available clients
    connClients,    \* ProxyImpl.connClients: inbound -> *Client (the busy map)
    open,           \* ids of the clients whose upstream connection is open
    pend,           \* per inbound: clientIDs[0] read by a Connect that has not popped yet
    crashed,        \* a handler panicked (nil pointer dereference)
    last,           \* the call that took the latest step, and what it returned
    wire,           \* the bytes the step just taken moved, and its events
    poolDown,       \* the Pool has been shut down
    hooks,          \* HookConfig.hooks: hook type -> (priority -> HookDef)
    Verification,   \* HookConfig.Verification
    hookRun,        \* the run of hooks the step just taken made, and what it did
    clientRec,      \* one Client record, and the Close calls made on it
    inflight,       \* a run of hooks another thread is in the middle of
    retry,          \* one Retry, and the calls it has made of its callback
    cmd,            \* runCmd.Run: where it stands, its events, its exit code
    health          \* the plugins, the metrics merger, the pings of the health check

proxyVars == <<Elastic, ReuseElasticClients, PoolSize, pool, connClients, open,
               pend, poolDown>>
hookVars == <<hooks, Verification, hookRun>>
cmdVars == <<inflight, retry, cmd, health>>

vars == <<Elastic, ReuseElasticClients, PoolSize, pool, connClients, open,
          pend, crashed, last, wire, poolDown, hooks, Verification, hookRun,
          clientRec, inflight, retry, cmd, health>>

----------------------------------------------------------------------------
(* Bounds of the model. *)

NumInbound == 2
MaxPool == 2
MaxId == 3
MaxMsgLen == 1
MaxPrio == 2        \* priorities are 1..MaxPrio
MaxHooks == 2       \* hooks registered at a time
MaxCloses == 3      \* Close calls made on one Client
MaxRetries == 3     \* the retries a Retry is made with
NumPlugins == 4     \* plugins loaded
\* Client.ReceiveBufferSize.  The value of DefaultBufferSize is set outside
\* the given sources; the model scales it down, and lets the upstream's
\* responses fill the buffer in part, fill it, and exceed it.
DefaultBufferSize == 2
\* The cap of one sleep of the Retry ("e.g. 2s per interval"), in the unit of
\* the backoff.
BackoffCap == 2

Inbounds == 1..NumInbound
Ids == 1..MaxId
Bytes == {1, 2}

\* A *Client is <<id>>; the nil pointer is <<>>.
Nil == <<>>

RECURSIVE SeqsUpTo(_)
SeqsUpTo(n) ==
    IF n = 0 THEN {<<>>}
    ELSE LET shorter == SeqsUpTo(n - 1)
         IN  shorter \cup {Append(s, b) : s \in {t \in shorter : Len(t) = n - 1}, b \in Bytes}

Msgs == SeqsUpTo(MaxMsgLen)
Responses == SeqsUpTo(DefaultBufferSize + 1)

Min(a, b) == IF a < b THEN a ELSE b

----------------------------------------------------------------------------
(* The Pool, from section 4.2 of the specification. *)

\* ClientIDs(): the keys held, in no particular order.
ClientIDs(p) == p

\* Pop(id): removes and returns the client, or signals absent (nil).
PoolPop(p, id) ==
    [client |-> IF id \in p THEN <<id>> ELSE Nil, pool |-> p \ {id}]

\* Put(client): insert if absent; a duplicate is rejected with an error.
PoolPut(p, id) ==
    IF id \in p THEN [err |-> TRUE, pool |-> p]
    ELSE [err |-> FALSE, pool |-> p \cup {id}]

\* Put after Shutdown is rejected with an error.
PutUnlessDown(p, down, id) ==
    IF down THEN [err |-> TRUE, pool |-> p] ELSE PoolPut(p, id)

\* Shutdown(): the terminal state; every held client is closed and released.
PoolShutdown(p, isOpen) == [pool |-> {}, open |-> isOpen \ p]

----------------------------------------------------------------------------
(* The upstream Client. *)

\* NewClient: net.Dial fails (nil), or yields a connection whose id is the
\* digest of its local address: an address no open connection has, nor the
\* connection this call has just closed (its port is in TIME_WAIT).  Ids are
\* interchangeable, so the dial takes the least one it may take.
FreshIds(isOpen) == Ids \ isOpen
NewClient(isOpen, dialOK) ==
    LET free == FreshIds(isOpen)
    IN  (IF TRUE \in dialOK /\ free # {}
         THEN {<<CHOOSE i \in free : \A j \in free : i <= j>>} ELSE {})
            \cup (IF FALSE \in dialOK THEN {Nil} ELSE {})

\* Client.Close on a non-nil client: the connection is closed, ID becomes "".
Close(isOpen, client) == isOpen \ {client[1]}

\* cl != nil && cl.ID != ""
Connected(isOpen, client) == client # Nil /\ client[1] \in isOpen

\* The part of Reconnect before the dial: close the client if it is connected.
ReconnectLeavesOpen(isOpen, client) == isOpen
ReconnectClose(isOpen, client) ==
    IF Connected(isOpen, client) THEN Close(isOpen, client) ELSE isOpen

\* Client.Receive: Read fills at most ReceiveBufferSize bytes of a fresh buffer.
Receive(resp) ==
    LET read == Min(Len(resp), DefaultBufferSize)
    IN  [size |-> read,
         buf  |-> [i \in 1..DefaultBufferSize |-> IF i <= read THEN resp[i] ELSE 0]]

\* The Client record.  The empty string is "", the nil net.Conn is 0, and a
\* connection is named by the id it gives the client.
NoConn == 0
NewClientRecord(network, address, receiveBufferSize, id) ==
    [ID |-> id, Conn |-> id, Address |-> address, Network |-> network,
     ReceiveBufferSize |-> IF receiveBufferSize <= 0 THEN DefaultBufferSize
                           ELSE receiveBufferSize]
ZeroClient ==
    [ID |-> 0, Conn |-> NoConn, Address |-> "", Network |-> "", ReceiveBufferSize |-> 0]

\* Client.Close: c.Conn.Close() if c.Conn != nil, then every field is zeroed.
\* connCloses counts the Close calls the net.Conn has got.
ClosesConnAlways(client) == TRUE
ClosesConn(client) == client.Conn # NoConn
ClientClose(rec) ==
    [rec EXCEPT !.client = ZeroClient,
                !.connCloses = IF ClosesConn(rec.client) THEN @ + 1 ELSE @,
                !.calls = @ + 1]

NoClient == [made |-> ZeroClient, client |-> ZeroClient, connCloses |-> 0, calls |-> 0]

----------------------------------------------------------------------------
(* sync.Map *)

Load(m, g) == IF g \in DOMAIN m THEN m[g] ELSE Nil
Store(m, g, c) == [h \in (DOMAIN m) \cup {g} |-> IF h = g THEN c ELSE m[h]]
Delete(m, g) == [h \in (DOMAIN m) \ {g} |-> m[h]]
\* ProxyImpl.Size
Size == Cardinality(DOMAIN connClients)

Call(op, g, ret, pre) == [op |-> op, g |-> g, ret |-> ret, pre |-> pre]
NoWire == [read |-> <<>>, sent |-> <<>>, recv |-> <<>>, wrote |-> <<>>,
           fromClient |-> <<>>, fromServer |-> <<>>, events |-> <<>>]
NoPre == 0 - 1

----------------------------------------------------------------------------
(* The hook engine: HookConfig, AddHook, verify, RunHooks. *)

\* Policy
Ignore == 0
Abort == 1
Remove == 2
Policies == {Ignore, Abort, Remove}

\* The callers name a fourth policy, PassDown (cmd/run.go, the plugin
\* configuration); the Policy constants above do not have it, so for RunHooks
\* it is a value that none of the cases of its switch matches.
PassDown == 3
VerificationPolicies == Policies \cup {PassDown}

\* HookType
OnConfigLoaded == "onConfigLoaded"
OnIncomingTraffic == "onIncomingTraffic"
OnOutgoingTraffic == "onOutgoingTraffic"
HookTypes == {OnConfigLoaded, OnIncomingTraffic, OnOutgoingTraffic}
TrafficHooks == {OnIncomingTraffic, OnOutgoingTraffic}

Prios == 1..MaxPrio

\* A Signature maps keys to values; every value is a sequence of bytes, and
\* the empty string is the empty sequence.
EmptySignature == [key \in {} |-> <<>>]
With(sig, key, val) ==
    [k \in (DOMAIN sig) \cup {key} |-> IF k = key THEN val ELSE sig[k]]
Without(sig, key) == [k \in (DOMAIN sig) \ {key} |-> sig[k]]

\* The envelopes of the two traffic callbacks.
IncomingArgs(buf) == [request |-> buf, error |-> <<>>]
OutgoingArgs(response, failed) ==
    [response |-> response, error |-> IF failed THEN <<1>> ELSE <<>>]

\* A HookDef is any func(Signature) Signature.  The ones the model registers:
\* return the input; lengthen the payload; introduce a key; drop the error
\* key; set the error key, creating it if the input has none.  One more asks
\* for the run to end: it sets the terminate key to true.
HookDefs == {"same", "modify", "extra", "drop", "seterror"}
TerminatingDefs == {"same", "modify", "terminate"}
Invoke(hookDef, sig) ==
    CASE hookDef = "same" -> sig
      [] hookDef = "modify" ->
            [k \in DOMAIN sig |->
                IF k \in {"request", "response"} THEN Append(sig[k], 1) ELSE sig[k]]
      [] hookDef = "extra" -> With(sig, "extra", <<1>>)
      [] hookDef = "drop" -> Without(sig, "error")
      [] hookDef = "seterror" -> With(sig, "error", <<2>>)
      [] hookDef = "terminate" -> With(sig, "terminate", <<1>>)

\* h.hooks[hookType]: a missing hook type reads as the nil map, which is empty.
EmptyPrioMap == [prio \in {} |-> "same"]
GetHook(table, hookType) ==
    IF hookType \in DOMAIN table THEN table[hookType] ELSE EmptyPrioMap

HookCount(table) ==
    Cardinality({pair \in (DOMAIN table) \X Prios : pair[2] \in DOMAIN table[pair[1]]})

\* verify: every key of returnVal is a key of params.
AcceptsAll(params, returnVal) == TRUE
verify(params, returnVal) == \A key \in DOMAIN returnVal : key \in DOMAIN params

\* The orders in which a range over a Go map may yield the keys.
Orders(keys) ==
    IF keys = {} THEN {<<>>}
    ELSE {order \in [1..Cardinality(keys) -> keys] :
            \A i, j \in 1..Cardinality(keys) : i # j => order[i] # order[j]}

\* sort.SliceStable(priorities, less)
InsertSorted(sorted, prio) ==
    LET before == Cardinality({i \in 1..Len(sorted) : ~(prio < sorted[i])})
    IN  SubSeq(sorted, 1, before) \o <<prio>> \o SubSeq(sorted, before + 1, Len(sorted))
RECURSIVE SortStable(_)
SortStable(priorities) ==
    IF priorities = <<>> THEN <<>>
    ELSE InsertSorted(SortStable(SubSeq(priorities, 1, Len(priorities) - 1)),
                      priorities[Len(priorities)])
LeftAsRanged(priorities) == priorities
SortPriorities(priorities) == SortStable(priorities)

\* What the run goes on with after a result that failed verification:
\* if idx == 0 { returnVal = args }, and returnVal as it was otherwise.
KeepsReturnVal(idx, args, returnVal) == returnVal
FallsBackToArgs(idx, args, returnVal) == args
Fallback(idx, args, returnVal) == IF idx = 1 THEN args ELSE returnVal

\* The loop of RunHooks from position idx on (idx is 1 for Go's idx == 0).
\* It yields the returned Signature, the removeList, the calls made, and
\* whether the run panicked.
RECURSIVE RunLoop(_, _, _, _, _, _, _, _, _)
RunLoop(invokers, hookType, args, verification, priorities, idx, returnVal, removeList, calls) ==
    IF idx > Len(priorities)
    THEN [ret |-> returnVal, removeList |-> removeList, calls |-> calls, panic |-> FALSE]
    ELSE LET prio == priorities[idx]
             input == IF idx = 1 THEN args ELSE returnVal
             result == Invoke(invokers[prio], input)
             ok == verify(args, result)
             called == Append(calls, [prio |-> prio, input |-> input,
                                      result |-> result, accepted |-> ok])
             fallback == Fallback(idx, args, returnVal)
         IN  IF ok
             THEN RunLoop(invokers, hookType, args, verification, priorities,
                          idx + 1, result, removeList, called)
             ELSE IF verification \in Policies /\ hookType = OnConfigLoaded
             THEN [ret |-> EmptySignature, removeList |-> removeList,
                   calls |-> called, panic |-> TRUE]
             ELSE IF verification = Ignore
             THEN RunLoop(invokers, hookType, args, verification, priorities,
                          idx + 1, fallback, removeList, called)
             ELSE IF verification = Abort
             THEN [ret |-> fallback, removeList |-> removeList,
                   calls |-> called, panic |-> FALSE]
             ELSE IF verification = Remove
             THEN RunLoop(invokers, hookType, args, verification, priorities,
                          idx + 1, fallback, Append(removeList, prio), called)
             ELSE RunLoop(invokers, hookType, args, verification, priorities,
                          idx + 1, returnVal, removeList, called)

\* delete(h.hooks[hookType], prio) for every prio of the removeList.
KeepsHooks(table, hookType, removeList) == table
DeleteHooks(table, hookType, removeList) ==
    IF hookType \notin DOMAIN table THEN table
    ELSE [table EXCEPT ![hookType] =
            [prio \in (DOMAIN table[hookType]) \ {removeList[i] : i \in 1..Len(removeList)}
                |-> table[hookType][prio]]]

\* RunHooks, given the order in which the range over the map yields the
\* priorities.  A run that panics leaves the table as it was.
RunHooks(table, hookType, args, verification, ranged) ==
    LET run == RunLoop(GetHook(table, hookType), hookType, args, verification,
                       SortPriorities(ranged), 1, EmptySignature, <<>>, <<>>)
    IN  [ret |-> run.ret, calls |-> run.calls, panic |-> run.panic,
         removeList |-> run.removeList,
         hooks |-> IF run.panic THEN table
                   ELSE DeleteHooks(table, hookType, run.removeList)]

NoRun == [hookType |-> "", args |-> EmptySignature, verification |-> Ignore,
          calls |-> <<>>, ret |-> EmptySignature, removeList |-> <<>>]
Ran(hookType, args, verification, run) ==
    [hookType |-> hookType, args |-> args, verification |-> verification,
     calls |-> run.calls, ret |-> run.ret, removeList |-> run.removeList]

\* A step of the proxy that moves no bytes and runs no hook.
NoTraffic == wire' = NoWire /\ hookRun' = NoRun

\* NewHookConfig makes the table without a priority map for any hook type.
NewHookConfig == <<>>

----------------------------------------------------------------------------
(* What the variables of the run command, of the Retry, of the health check *)
(* and of the run in flight hold where these are not modelled.              *)

NoExit == 0 - 1
NoFlight == [active |-> FALSE, hookType |-> "", args |-> EmptySignature,
             verification |-> Ignore, priorities |-> <<>>, idx |-> 1,
             returnVal |-> EmptySignature, removeList |-> <<>>, calls |-> <<>>,
             started |-> EmptyPrioMap, invoked |-> <<>>]
NoRetry == [given |-> 0, Retries |-> 0, Backoff |-> 0, BackoffMultiplier |-> 0,
            DisableBackoffCaps |-> FALSE, state |-> "none", calls |-> <<>>,
            sleeps |-> <<>>, value |-> 0, err |-> ""]
NoCmd == [pc |-> "none", config |-> {}, i |-> 0, events |-> <<>>, exit |-> NoExit,
          signal |-> "", handler |-> 0]
NoHealth == [plugins |-> {}, merger |-> {}, pings |-> <<>>]

Elsewhere ==
    /\ inflight = NoFlight
    /\ retry = NoRetry
    /\ cmd = NoCmd
    /\ health = NoHealth

----------------------------------------------------------------------------
(* NewProxy *)

InitProxy(elastic, reuse, size) ==
    /\ Elastic = elastic
    /\ ReuseElasticClients = reuse
    /\ PoolSize = size
    /\ pool = IF elastic THEN {} ELSE 1..size
    /\ open = IF elastic THEN {} ELSE 1..size
    /\ connClients = <<>>
    /\ pend = [g \in Inbounds |-> Nil]
    /\ crashed = FALSE
    /\ last = Call("NewProxy", 0, "ok", NoPre)
    /\ wire = NoWire
    /\ poolDown = FALSE

Init ==
    \* ReuseElasticClients is read only in elastic mode, and PoolSize only to
    \* fill the pool of a fixed proxy: one value stands for all where unread.
    \E elastic \in BOOLEAN, reuse \in BOOLEAN, size \in 1..MaxPool :
        /\ (~elastic => ~reuse)
        /\ (elastic => size = 1)
        /\ InitProxy(elastic, reuse, size)
        /\ hooks = NewHookConfig
        /\ Verification = Ignore
        /\ hookRun = NoRun
        /\ clientRec = NoClient
        /\ Elsewhere

----------------------------------------------------------------------------
(* Inputs: the outcome of a dial, and what the upstream does in a PassThrough. *)

Flaky == {TRUE, FALSE}      \* a dial may succeed or fail
Reliable == {TRUE}          \* the upstream accepts every dial

Upstream(resps) ==
    {[kind |-> "ok", resp |-> r] : r \in resps \ {<<>>}}
        \cup {[kind |-> k, resp |-> <<>>] : k \in {"eof", "err", "senderr"}}

----------------------------------------------------------------------------
(* ProxyImpl.Connect, in two steps: the read of the available ids, then the *)
(* Pop of clientIDs[0] and the Store.                                       *)

\* if client.ID != "" { Store } else { return ErrClientNotConnected }; a nil
\* client panics at client.ID.
ConnectAssign(g, client, pre) ==
    IF client = Nil
    THEN /\ crashed' = TRUE
         /\ last' = Call("Connect", g, "panic", pre)
         /\ UNCHANGED connClients
    ELSE IF client[1] \in open'
    THEN /\ connClients' = Store(connClients, g, client)
         /\ last' = Call("Connect", g, "ok", pre)
         /\ UNCHANGED crashed
    ELSE /\ last' = Call("Connect", g, "ClientNotConnected", pre)
         /\ UNCHANGED <<connClients, crashed>>

\* if pr.Elastic { dial a new client } else { return ErrPoolExhausted }
DialsWhenExhaustedAlways == TRUE
DialsWhenExhausted == Elastic

\* client = pr.pool.Pop(clientIDs[0])
TakeFromPoolKeeps(p, id) == [PoolPop(p, id) EXCEPT !.pool = p]
TakeFromPool(p, id) == PoolPop(p, id)

ConnectRead(g, dialOK) ==
    /\ ~crashed
    /\ pend[g] = Nil
    /\ g \notin DOMAIN connClients     \* Connect is called once, when the inbound opens
    /\ LET clientIDs == ClientIDs(pool)
           pre == Cardinality(pool)
       IN  IF clientIDs = {}
           THEN IF DialsWhenExhausted
                THEN \E client \in NewClient(open, dialOK) :
                        /\ open' = IF client = Nil THEN open ELSE open \cup {client[1]}
                        /\ ConnectAssign(g, client, pre)
                        /\ UNCHANGED <<pool, pend>>
                ELSE /\ last' = Call("Connect", g, "PoolExhausted", pre)
                     /\ UNCHANGED <<pool, connClients, open, pend, crashed>>
           ELSE \E id \in clientIDs :
                    /\ pend' = [pend EXCEPT ![g] = <<id>>]
                    /\ last' = Call("ConnectRead", g, "pending", pre)
                    /\ UNCHANGED <<pool, connClients, open, crashed>>
    /\ NoTraffic
    /\ UNCHANGED <<Elastic, ReuseElasticClients, PoolSize, poolDown, hooks,
                   Verification, clientRec, cmdVars>>

ConnectPop(g) ==
    /\ ~crashed
    /\ pend[g] # Nil
    /\ LET popped == TakeFromPool(pool, pend[g][1])
           pre == IF last.op = "ConnectRead" /\ last.g = g THEN last.pre ELSE NoPre
       IN  /\ pool' = popped.pool
           /\ pend' = [pend EXCEPT ![g] = Nil]
           /\ open' = open
           /\ ConnectAssign(g, popped.client, pre)
    /\ NoTraffic
    /\ UNCHANGED <<Elastic, ReuseElasticClients, PoolSize, poolDown, hooks,
                   Verification, clientRec, cmdVars>>

----------------------------------------------------------------------------
(* ProxyImpl.Disconnect (with the Reconnect it calls) *)

\* if pr.Elastic && pr.ReuseElasticClients || !pr.Elastic { Reconnect, Put }
\* else { Close }
PutsBackAlways == TRUE
PutsBackNever == FALSE
PutsBack == (Elastic /\ ReuseElasticClients) \/ ~Elastic

Disconnect(g, dialOK) ==
    /\ ~crashed
    /\ pend[g] = Nil
    /\ LET client == Load(connClients, g)
           \* the pool size before the Connect(g) that this call follows at once
           pre == IF last.op = "Connect" /\ last.g = g THEN last.pre ELSE NoPre
       IN  /\ connClients' = Delete(connClients, g)
           /\ IF PutsBack
              THEN LET closed == ReconnectClose(open, client)
                   IN  \E new \in NewClient(open, dialOK) :
                          IF new # Nil
                          THEN LET put == PutUnlessDown(pool, poolDown, new[1])
                               IN  /\ pool' = put.pool
                                   /\ open' = closed \cup {new[1]}
                                   /\ last' = Call("Disconnect", g,
                                                   IF put.err THEN "PutError" ELSE "ok", pre)
                                   /\ UNCHANGED crashed
                          ELSE /\ open' = closed
                               /\ last' = Call("Disconnect", g, "ok", pre)
                               /\ UNCHANGED <<pool, crashed>>
              ELSE IF client = Nil
                   THEN \* client.Close() on a nil *Client
                        /\ crashed' = TRUE
                        /\ last' = Call("Disconnect", g, "panic", pre)
                        /\ UNCHANGED <<pool, open>>
                   ELSE /\ open' = Close(open, client)
                        /\ last' = Call("Disconnect", g, "ok", pre)
                        /\ UNCHANGED <<pool, crashed>>
    /\ NoTraffic
    /\ UNCHANGED <<Elastic, ReuseElasticClients, PoolSize, pend, poolDown, hooks,
                   Verification, clientRec, cmdVars>>

----------------------------------------------------------------------------
(* ProxyImpl.PassThrough *)

\* The Traffic callbacks get the buffer and return only an error, which is
\* logged: what goes on is the buffer they were handed.
onIncomingTraffic(buf) == buf
onOutgoingTraffic(response) == response

\* gconn.Write(response[:size])
WriteBackWholeBuffer(rcv) == onOutgoingTraffic(rcv.buf)
WriteBack(rcv) == SubSeq(onOutgoingTraffic(rcv.buf), 1, rcv.size)

\* The callbacks the server hands to PassThrough run the hooks of their hook
\* point on the envelope of the traffic; a Traffic callback returns an error
\* and nothing else.
IncomingRun(table, buf, ranged) ==
    RunHooks(table, OnIncomingTraffic, IncomingArgs(buf), Verification, ranged)
OutgoingRun(table, response, failed, ranged) ==
    RunHooks(table, OnOutgoingTraffic, OutgoingArgs(response, failed), Verification, ranged)

\* client.Send(buf): what is sent after the incoming callback has run.
SendsHookResult(buf, returned) ==
    IF "request" \in DOMAIN returned THEN returned["request"] ELSE buf
Sends(buf, returned) == onIncomingTraffic(buf)

\* c, ok := pr.connClients.Load(gconn): ok
FoundAlways(m, g) == TRUE
Found(m, g) == g \in DOMAIN m

PassThrough(g, buf, up, dialOK) ==
    /\ ~crashed
    /\ pend[g] = Nil
    /\ IF ~Found(connClients, g)
       THEN /\ last' = Call("PassThrough", g, "ClientNotFound", NoPre)
            /\ NoTraffic
            /\ UNCHANGED <<connClients, open, crashed, hooks, Verification>>
       ELSE \E rangedIn \in Orders(DOMAIN GetHook(hooks, OnIncomingTraffic)),
               rangedOut \in Orders(DOMAIN GetHook(hooks, OnOutgoingTraffic)) :
            \E in \in {IncomingRun(hooks, buf, rangedIn)} :
            LET client == Load(connClients, g)
                request == Sends(buf, in.ret)
                ranIn == Ran(OnIncomingTraffic, IncomingArgs(buf), Verification, in)
                begun == [NoWire EXCEPT !.read = buf, !.fromClient = in.ret]
            IN  IF client = Nil
                THEN \* client.Send on a nil *Client
                     /\ crashed' = TRUE
                     /\ last' = Call("PassThrough", g, "panic", NoPre)
                     /\ wire' = [begun EXCEPT !.events = <<"onIncomingTraffic">>]
                     /\ hooks' = in.hooks
                     /\ hookRun' = ranIn
                     /\ UNCHANGED <<connClients, open, Verification>>
                ELSE IF up.kind = "senderr"
                THEN /\ last' = Call("PassThrough", g, "SendError", NoPre)
                     /\ wire' = [begun EXCEPT !.events = <<"onIncomingTraffic", "Send">>]
                     /\ hooks' = in.hooks
                     /\ hookRun' = ranIn
                     /\ UNCHANGED <<connClients, open, crashed, Verification>>
                ELSE \E rcv \in {IF up.kind = "ok" THEN Receive(up.resp)
                                  ELSE [size |-> 0, buf |-> <<>>]} :
                     \E out \in {OutgoingRun(in.hooks, SubSeq(rcv.buf, 1, rcv.size),
                                              up.kind # "ok", rangedOut)} :
                     LET response == SubSeq(rcv.buf, 1, rcv.size)
                         sent == [begun EXCEPT !.sent = request, !.fromServer = out.ret]
                     IN  /\ hooks' = out.hooks
                         /\ hookRun' = Ran(OnOutgoingTraffic,
                                           OutgoingArgs(response, up.kind # "ok"),
                                           Verification, out)
                         /\ UNCHANGED <<crashed, Verification>>
                         /\ IF up.kind = "ok"
                            THEN /\ last' = Call("PassThrough", g, "ok", NoPre)
                                 /\ wire' = [sent EXCEPT
                                       !.recv = SubSeq(up.resp, 1, rcv.size),
                                       !.wrote = WriteBack(rcv),
                                       !.events = <<"onIncomingTraffic", "Send", "Receive",
                                                    "onOutgoingTraffic", "Write">>]
                                 /\ UNCHANGED <<connClients, open>>
                            ELSE IF up.kind = "eof"
                            THEN LET closed == ReconnectClose(open, client)
                                 IN  \E new \in NewClient(open, dialOK) :
                                        /\ open' = IF new = Nil THEN closed
                                                   ELSE closed \cup {new[1]}
                                        /\ connClients' = Store(connClients, g, new)
                                        /\ last' = Call("PassThrough", g, "eof", NoPre)
                                        /\ wire' = [sent EXCEPT
                                              !.events = <<"onIncomingTraffic", "Send",
                                                           "Receive", "onOutgoingTraffic",
                                                           "Reconnect">>]
                            ELSE \* any other receive error: Receive returned (0, nil, err)
                                 /\ last' = Call("PassThrough", g, "ok", NoPre)
                                 /\ wire' = [sent EXCEPT
                                       !.events = <<"onIncomingTraffic", "Send", "Receive",
                                                    "onOutgoingTraffic", "Write">>]
                                 /\ UNCHANGED <<connClients, open>>
    /\ UNCHANGED <<Elastic, ReuseElasticClients, PoolSize, pool, pend, poolDown,
                   clientRec, cmdVars>>

----------------------------------------------------------------------------
(* ProxyImpl.Shutdown *)

\* pr.pool.Shutdown(), then every id the pool still lists is popped and its
\* client closed.  The busy map is not read.
ShutdownCloses(m) == {}

Shutdown ==
    /\ ~crashed
    /\ LET down == PoolShutdown(pool, open)
           availableClients == ClientIDs(down.pool)
       IN  /\ pool' = down.pool \ availableClients
           /\ open' = (down.open \ availableClients) \ ShutdownCloses(connClients)
           /\ poolDown' = TRUE
           /\ last' = Call("Shutdown", 0, "ok", NoPre)
    /\ NoTraffic
    /\ UNCHANGED <<Elastic, ReuseElasticClients, PoolSize, connClients, pend, crashed,
                   hooks, Verification, clientRec, cmdVars>>

----------------------------------------------------------------------------
(* HookConfig.AddHook and a call of HookConfig.RunHooks *)

\* if hookDef, ok := hook.(HookDef); ok { h.hooks[hookType][prio] = hookDef }
\* An assignment to an entry of the nil map panics.
AddHook(hookType, prio, hookDef, isHookDef) ==
    /\ ~crashed
    /\ HookCount(hooks) < MaxHooks \/ prio \in DOMAIN GetHook(hooks, hookType)
    /\ IF ~isHookDef
       THEN /\ last' = Call("AddHook", 0, "skipped", NoPre)
            /\ UNCHANGED <<hooks, crashed>>
       ELSE IF hookType \notin DOMAIN hooks
       THEN /\ crashed' = TRUE
            /\ last' = Call("AddHook", 0, "panic", NoPre)
            /\ UNCHANGED hooks
       ELSE /\ hooks' = [hooks EXCEPT ![hookType] = With(@, prio, hookDef)]
            /\ last' = Call("AddHook", 0, "ok", NoPre)
            /\ UNCHANGED crashed
    /\ hookRun' = NoRun
    /\ UNCHANGED <<proxyVars, wire, Verification, clientRec, cmdVars>>

RunHooksCall(hookType, args, verification) ==
    /\ ~crashed
    /\ \E ranged \in Orders(DOMAIN GetHook(hooks, hookType)) :
          LET run == RunHooks(hooks, hookType, args, verification, ranged)
          IN  /\ hooks' = run.hooks
              /\ hookRun' = Ran(hookType, args, verification, run)
              /\ crashed' = run.panic
              /\ last' = Call("RunHooks", 0, IF run.panic THEN "panic" ELSE "ok", NoPre)
    /\ UNCHANGED <<proxyVars, wire, Verification, clientRec, cmdVars>>

----------------------------------------------------------------------------
(* A call of HookConfig.RunHooks made by another thread, in steps: the       *)
(* collection of the priorities, each iteration of the loop, the deletes and *)
(* the return.  HookConfig has no lock, so the AddHook and RunHooks calls of *)
(* the other threads come between these steps.                               *)

\* priorities := ...; sort.SliceStable(priorities, ...)
RunBegin(hookType, args, verification) ==
    /\ ~crashed
    /\ ~inflight.active
    /\ \E ranged \in Orders(DOMAIN GetHook(hooks, hookType)) :
          inflight' = [active |-> TRUE, hookType |-> hookType, args |-> args,
                       verification |-> verification,
                       priorities |-> SortPriorities(ranged), idx |-> 1,
                       returnVal |-> EmptySignature, removeList |-> <<>>,
                       calls |-> <<>>, started |-> GetHook(hooks, hookType),
                       invoked |-> <<>>]
    /\ last' = Call("RunBegin", 0, "ok", NoPre)
    /\ hookRun' = NoRun
    /\ UNCHANGED <<proxyVars, crashed, wire, hooks, Verification, clientRec,
                   retry, cmd, health>>

\* One iteration of the loop: h.hooks[hookType][prio] is read again, and is
\* the nil HookDef when the priority has been deleted: calling it panics.
RunIterate ==
    /\ ~crashed
    /\ inflight.active
    /\ inflight.idx <= Len(inflight.priorities)
    /\ LET prio == inflight.priorities[inflight.idx]
           invokers == GetHook(hooks, inflight.hookType)
       IN  IF prio \notin DOMAIN invokers
           THEN /\ crashed' = TRUE
                /\ last' = Call("RunIterate", 0, "panic", NoPre)
                /\ UNCHANGED inflight
           ELSE \E step \in {RunLoop(invokers, inflight.hookType, inflight.args,
                                     inflight.verification,
                                     SubSeq(inflight.priorities, 1, inflight.idx),
                                     inflight.idx, inflight.returnVal,
                                     inflight.removeList, inflight.calls)} :
                    /\ inflight' =
                          [inflight EXCEPT
                             !.idx = IF /\ inflight.verification = Abort
                                        /\ ~step.calls[Len(step.calls)].accepted
                                     THEN Len(inflight.priorities) + 1 ELSE @ + 1,
                             !.returnVal = step.ret,
                             !.removeList = step.removeList,
                             !.calls = step.calls,
                             !.invoked = Append(@, invokers[prio])]
                    /\ crashed' = step.panic
                    /\ last' = Call("RunIterate", 0,
                                    IF step.panic THEN "panic" ELSE "ok", NoPre)
    /\ hookRun' = NoRun
    /\ UNCHANGED <<proxyVars, wire, hooks, Verification, clientRec, retry, cmd, health>>

\* for _, prio := range removeList { delete(h.hooks[hookType], prio) }; return
RunFinish ==
    /\ ~crashed
    /\ inflight.active
    /\ inflight.idx > Len(inflight.priorities)
    /\ hooks' = DeleteHooks(hooks, inflight.hookType, inflight.removeList)
    /\ hookRun' = Ran(inflight.hookType, inflight.args, inflight.verification,
                      [calls |-> inflight.calls, ret |-> inflight.returnVal,
                       removeList |-> inflight.removeList])
    /\ inflight' = NoFlight
    /\ last' = Call("RunFinish", 0, "ok", NoPre)
    /\ UNCHANGED <<proxyVars, crashed, wire, Verification, clientRec, retry, cmd, health>>

----------------------------------------------------------------------------
(* A call of Client.Close *)

CloseClient ==
    /\ clientRec.calls < MaxCloses
    /\ clientRec' = ClientClose(clientRec)
    /\ last' = Call("Close", 0, "ok", NoPre)
    /\ UNCHANGED <<proxyVars, crashed, wire, hookVars, cmdVars>>

----------------------------------------------------------------------------
(* The Retry.  Its implementation is not among the sources: NewRetry is      *)
(* modelled from the test of network/retry_test.go and the loop of Retry     *)
(* from section 4.3 of the specification.                                    *)

\* What a call of the callback returns: a value and no error, or the nil
\* value (0) and an error.
CallbackResults ==
    {[value |-> v, err |-> ""] : v \in 1..2}
        \cup {[value |-> 0, err |-> e] : e \in {"refused", "timeout"}}

\* NewRetry(0, ...) has Retries = 1.
AsGiven(retries) == retries
NormaliseRetries(retries) == IF retries = 0 THEN 1 ELSE retries

RECURSIVE Power(_, _)
Power(base, exp) == IF exp = 0 THEN 1 ELSE base * Power(base, exp - 1)

\* The sleep before the attempt of this number (the first attempt is 0):
\* backoff x multiplier^attempt, capped unless DisableBackoffCaps.
BackoffDuration(r, attempt) ==
    LET duration == r.Backoff * Power(r.BackoffMultiplier, attempt)
    IN  IF r.DisableBackoffCaps THEN duration ELSE Min(duration, BackoffCap)

\* The loop of Retry: the callback is called until it returns no error or
\* Retries attempts were made; results are what the successive calls of the
\* callback return.
RECURSIVE RetryLoop(_, _, _, _, _)
RetryLoop(r, results, attempt, calls, sleeps) ==
    IF attempt >= r.Retries
    THEN [calls |-> calls, sleeps |-> sleeps,
          value |-> IF calls = <<>> THEN 0 ELSE calls[Len(calls)].value,
          err |-> IF calls = <<>> THEN "" ELSE calls[Len(calls)].err]
    ELSE LET slept == IF attempt > 0
                      THEN Append(sleeps, BackoffDuration(r, attempt))
                      ELSE sleeps
             result == results[attempt + 1]
             called == Append(calls, result)
         IN  IF result.err = ""
             THEN [calls |-> called, sleeps |-> slept,
                   value |-> result.value, err |-> ""]
             ELSE RetryLoop(r, results, attempt + 1, called, slept)

RECURSIVE ResultSeqs(_)
ResultSeqs(n) ==
    IF n = 0 THEN {<<>>}
    ELSE {Append(s, c) : s \in ResultSeqs(n - 1), c \in CallbackResults}

\* NewRetry(retries, backoff, backoffMultiplier, disableBackoffCaps, logger)
NewRetry(retries, backoff, backoffMultiplier, disableBackoffCaps) ==
    /\ retry.state \in {"none", "done"}
    /\ retry' = [NoRetry EXCEPT !.given = retries,
                                !.Retries = NormaliseRetries(retries),
                                !.Backoff = backoff,
                                !.BackoffMultiplier = backoffMultiplier,
                                !.DisableBackoffCaps = disableBackoffCaps,
                                !.state = "made"]
    /\ last' = Call("NewRetry", 0, "ok", NoPre)
    /\ UNCHANGED <<proxyVars, crashed, wire, hookVars, clientRec, inflight, cmd, health>>

\* retry.Retry(callback): a nil callback is an error, and no call is made.
RetryCall(callbackNil, results) ==
    /\ retry.state = "made"
    /\ IF callbackNil
       THEN retry' = [retry EXCEPT !.state = "done", !.err = "callback is nil"]
       ELSE \E out \in {RetryLoop(retry, results, 0, <<>>, <<>>)} :
               retry' = [retry EXCEPT !.state = "done", !.calls = out.calls,
                                      !.sleeps = out.sleeps, !.value = out.value,
                                      !.err = out.err]
    /\ last' = Call("Retry", 0, IF callbackNil THEN "nil" ELSE "ok", NoPre)
    /\ UNCHANGED <<proxyVars, crashed, wire, hookVars, clientRec, inflight, cmd, health>>

----------------------------------------------------------------------------
(* The run command: runCmd.Run, from the plugin registry to server.Run, and *)
(* the goroutine that handles the signals.  An event is what Run or the     *)
(* goroutine has just done; the events are kept in the order they happened. *)

Ev(name) == [ev |-> name, id |-> 0]
ClientEv(name, id) == [ev |-> name, id |-> id]

\* The exit codes.  The values of gerr.FailedToInitializePool and of
\* gerr.FailedToStartServer are set outside the given sources: they are
\* those of section 7 of the specification.  A process that SIGKILL ends
\* has no exit code of its own: the shell reports 128 + 9.
ExitClean == 0
FailedToInitializePool == 2
FailedToStartServer == 3
Killed == 137

\* The top-level keys of the global configuration that hold a map: those of
\* the configuration file of the repository, and the same with a proxy key.
FileKeys == {"loggers", "metrics", "clients", "pools", "proxies", "servers", "api"}
Configs == {FileKeys, FileKeys \cup {"proxy"}}

\* data, ok := conf.GlobalKoanf.Get(key).(map[string]interface{})
HasMap(config, key) == key \in config

\* The events of a hook run that is made only if the configuration has a
\* map under the key.
Notification(config, key, hookName) ==
    IF HasMap(config, key) THEN <<Ev(hookName)>> ELSE <<>>

\* pluginRegistry.LoadPlugins, with the registry made before it and the
\* metrics merger and the health check scheduler started after it.
LoadPlugins ==
    /\ cmd.pc = "start"
    /\ cmd' = [cmd EXCEPT !.pc = "loaded", !.events = Append(@, Ev("LoadPlugins"))]
    /\ last' = Call("LoadPlugins", 0, "ok", NoPre)
    /\ UNCHANGED <<proxyVars, crashed, wire, hookVars, clientRec, inflight, retry, health>>

\* pluginRegistry.Run(..., OnConfigLoaded) and MergeGlobalConfig, then the
\* OnNewLogger notification.
RunOnConfigLoaded ==
    /\ cmd.pc = "loaded"
    /\ cmd' = [cmd EXCEPT !.pc = "configured",
                          !.events = Append(@, Ev("OnConfigLoaded"))
                                        \o Notification(cmd.config, "loggers", "OnNewLogger")]
    /\ last' = Call("OnConfigLoaded", 0, "ok", NoPre)
    /\ UNCHANGED <<proxyVars, crashed, wire, hookVars, clientRec, inflight, retry, health>>

\* pool := pool.NewPool(poolSize)
RunNewPool ==
    /\ cmd.pc = "configured"
    /\ cmd' = [cmd EXCEPT !.pc = "fill", !.i = 0, !.events = Append(@, Ev("NewPool"))]
    /\ pool' = {}
    /\ last' = Call("NewPool", 0, "ok", NoPre)
    /\ UNCHANGED <<Elastic, ReuseElasticClients, PoolSize, connClients, open, pend,
                   poolDown, crashed, wire, hookVars, clientRec, inflight, retry, health>>

\* One iteration of the loop that adds the clients: NewClient, and if the
\* client is not nil, the OnNewClient hooks and then pool.Put.
FillPool(dialOK) ==
    /\ cmd.pc = "fill"
    /\ cmd.i < PoolSize
    /\ \E client \in NewClient(open, dialOK) :
          IF client = Nil
          THEN /\ cmd' = [cmd EXCEPT !.i = @ + 1]
               /\ last' = Call("FillPool", 0, "nil", NoPre)
               /\ UNCHANGED <<pool, open>>
          ELSE \E put \in {PoolPut(pool, client[1])} :
                  /\ open' = open \cup {client[1]}
                  /\ pool' = put.pool
                  /\ cmd' = [cmd EXCEPT
                                !.i = @ + 1,
                                !.events = @ \o <<ClientEv("OnNewClient", client[1])>>
                                             \o (IF put.err THEN <<>>
                                                 ELSE <<ClientEv("Put", client[1])>>)]
                  /\ last' = Call("FillPool", 0, "ok", NoPre)
    /\ UNCHANGED <<Elastic, ReuseElasticClients, PoolSize, connClients, pend,
                   poolDown, crashed, wire, hookVars, clientRec, inflight, retry, health>>

\* pool.Size() != poolSize, negated
PoolFilledAlways(size, poolSize) == TRUE
PoolFilled(size, poolSize) == size = poolSize

\* After the loop: a pool that has not poolSize clients ends the process,
\* and a pool that has them is announced by the OnNewPool hooks.
VerifyPool ==
    /\ cmd.pc = "fill"
    /\ cmd.i = PoolSize
    /\ IF ~PoolFilled(Cardinality(pool), PoolSize)
       THEN /\ cmd' = [cmd EXCEPT !.pc = "exited", !.exit = FailedToInitializePool,
                                  !.events = Append(@, Ev("RegistryShutdown"))]
            /\ last' = Call("VerifyPool", 0, "exit", NoPre)
       ELSE /\ cmd' = [cmd EXCEPT !.pc = "pooled", !.events = Append(@, Ev("OnNewPool"))]
            /\ last' = Call("VerifyPool", 0, "ok", NoPre)
    /\ UNCHANGED <<proxyVars, crashed, wire, hookVars, clientRec, inflight, retry, health>>

\* network.NewProxy, then the OnNewProxy notification.
RunNewProxy ==
    /\ cmd.pc = "pooled"
    /\ cmd' = [cmd EXCEPT !.pc = "proxied",
                          !.events = Append(@, Ev("NewProxy"))
                                        \o Notification(cmd.config, "proxy", "OnNewProxy")]
    /\ last' = Call("NewProxy", 0, "ok", NoPre)
    /\ UNCHANGED <<proxyVars, crashed, wire, hookVars, clientRec, inflight, retry, health>>

\* network.NewServer, then the OnNewServer notification, then signal.Notify
\* and the start of the goroutine that handles the signals.
RunNewServer ==
    /\ cmd.pc = "proxied"
    /\ cmd' = [cmd EXCEPT !.pc = "served",
                          !.events = Append(@, Ev("NewServer"))
                                        \o Notification(cmd.config, "servers", "OnNewServer")]
    /\ last' = Call("NewServer", 0, "ok", NoPre)
    /\ UNCHANGED <<proxyVars, crashed, wire, hookVars, clientRec, inflight, retry, health>>

\* server.Run(): the server runs, or Run returns an error at once and the
\* process ends.
ServerRun(started) ==
    /\ cmd.pc = "served"
    /\ IF started
       THEN /\ cmd' = [cmd EXCEPT !.pc = "running", !.events = Append(@, Ev("ServerRun"))]
            /\ last' = Call("ServerRun", 0, "ok", NoPre)
       ELSE /\ cmd' = [cmd EXCEPT !.pc = "exited", !.exit = FailedToStartServer,
                                  !.events = @ \o <<Ev("ServerRun"), Ev("MergerStop"),
                                                    Ev("ServerShutdown"),
                                                    Ev("RegistryShutdown")>>]
            /\ last' = Call("ServerRun", 0, "exit", NoPre)
    /\ UNCHANGED <<proxyVars, crashed, wire, hookVars, clientRec, inflight, retry, health>>

\* The signals given to signal.Notify; os.Interrupt is SIGINT and os.Kill is
\* SIGKILL.
signals == <<"SIGINT", "SIGKILL", "SIGTERM", "SIGABRT", "SIGQUIT", "SIGHUP", "SIGINT">>
Notified(sig) == \E k \in DOMAIN signals : signals[k] = sig

\* SIGKILL is never delivered to the program: the kernel ends the process.
Catchable(sig) == sig # "SIGKILL"

\* for _, s := range signals { if sig != s { ... os.Exit(0) } }: the body is
\* entered at the first s that is not sig.
EntersBody(sig) == \E k \in DOMAIN signals : sig # signals[k]

\* What the goroutine does for a signal, in the order of the code.
HandlerSteps ==
    <<"OnSignal", "SchedulerClear", "MergerStop", "ServerShutdown",
      "RegistryShutdown", "Exit">>

\* A registered signal is sent to the running process.  signalsCh holds one
\* signal: a signal sent while the goroutine handles one is not read, since
\* the goroutine ends the process.
Signal(sig) ==
    /\ cmd.pc = "running"
    /\ cmd.signal = ""
    /\ Notified(sig)
    /\ IF Catchable(sig)
       THEN cmd' = [cmd EXCEPT !.signal = sig, !.handler = 0]
       ELSE cmd' = [cmd EXCEPT !.signal = sig, !.pc = "exited", !.exit = Killed]
    /\ last' = Call("Signal", 0, IF Catchable(sig) THEN "ok" ELSE "killed", NoPre)
    /\ UNCHANGED <<proxyVars, crashed, wire, hookVars, clientRec, inflight, retry, health>>

\* The next step of the goroutine for the signal it has read.
HandleSignal ==
    /\ cmd.pc = "running"
    /\ cmd.signal # ""
    /\ EntersBody(cmd.signal)
    /\ cmd.handler < Len(HandlerSteps)
    /\ LET step == HandlerSteps[cmd.handler + 1]
       IN  /\ cmd' = IF step = "Exit"
                     THEN [cmd EXCEPT !.handler = @ + 1, !.pc = "exited",
                                      !.exit = ExitClean]
                     ELSE [cmd EXCEPT !.handler = @ + 1,
                                      !.events = Append(@, Ev(step))]
           /\ last' = Call("HandleSignal", 0, step, NoPre)
    /\ UNCHANGED <<proxyVars, crashed, wire, hookVars, clientRec, inflight, retry, health>>

\* server.Shutdown() has been called by the goroutine
ServerIsShutDown == \E k \in DOMAIN cmd.events : cmd.events[k] = Ev("ServerShutdown")

\* The server that has been shut down stops running: server.Run() returns
\* nil in the main goroutine, Run returns, and the process ends with the
\* main goroutine, whatever the other goroutine is doing.
MainReturns ==
    /\ cmd.pc = "running"
    /\ ServerIsShutDown
    /\ cmd' = [cmd EXCEPT !.pc = "exited", !.exit = ExitClean]
    /\ last' = Call("MainReturns", 0, "ok", NoPre)
    /\ UNCHANGED <<proxyVars, crashed, wire, hookVars, clientRec, inflight, retry, health>>

----------------------------------------------------------------------------
(* The health check: the job the scheduler runs every healthCheckPeriod.    *)

Plugins == 1..NumPlugins

\* metricsMerger.Remove(pluginId.Name); pluginRegistry.Remove(pluginId)
Evict(h, p) == [h EXCEPT !.plugins = @ \ {p}, !.merger = @ \ {p}]

\* One round: pluginRegistry.ForEach pings every plugin of the registry, and
\* a plugin whose Ping returns an error is removed from the metrics merger
\* and from the registry.  pings counts, for each plugin, the failed pings
\* in a row up to its latest ping.
RECURSIVE PingEach(_, _, _)
PingEach(h, todo, failing) ==
    IF todo = {} THEN h
    ELSE LET p == CHOOSE q \in todo : \A r \in todo : q <= r
             pinged == IF p \in failing
                       THEN Evict([h EXCEPT !.pings[p] = @ + 1], p)
                       ELSE [h EXCEPT !.pings[p] = 0]
         IN  PingEach(pinged, todo \ {p}, failing)

HealthCheck(failing) ==
    /\ health.plugins # {}
    /\ failing \subseteq health.plugins
    /\ health' = PingEach(health, health.plugins, failing)
    /\ last' = Call("HealthCheck", 0, IF failing = {} THEN "ok" ELSE "evicted", NoPre)
    /\ UNCHANGED <<proxyVars, crashed, wire, hookVars, clientRec, inflight, retry, cmd>>

----------------------------------------------------------------------------
(* The proxy under concurrent inbounds, with an upstream whose dials may fail. *)

SmallBufs == {<<>>}

Next ==
    \E g \in Inbounds :
        \/ ConnectRead(g, Flaky)
        \/ ConnectPop(g)
        \/ Disconnect(g, Flaky)
        \/ \E buf \in SmallBufs, up \in Upstream({<<2>>}) : PassThrough(g, buf, up, Flaky)
        \/ Shutdown

Spec == Init /\ [][Next]_vars

----------------------------------------------------------------------------
(* Sequential service: one inbound at a time connects, passes traffic any   *)
(* number of times and disconnects before the next one connects; the        *)
(* upstream accepts every dial.                                             *)

NextSeq ==
    \E g \in Inbounds :
        \/ /\ DOMAIN connClients = {}
           /\ \A h \in Inbounds : pend[h] = Nil
           /\ ConnectRead(g, Reliable)
        \/ ConnectPop(g)
        \/ /\ g \in DOMAIN connClients
           /\ \E buf \in Msgs, up \in Upstream(Responses) : PassThrough(g, buf, up, Reliable)
        \/ /\ g \in DOMAIN connClients
           /\ Disconnect(g, Reliable)

SpecSeq == Init /\ [][NextSeq]_vars

----------------------------------------------------------------------------
(* The hook engine on its own: hooks are registered in any order and the    *)
(* hooks of a hook type are run on an envelope.  The hook table is an input *)
(* of a run: the table of NewHookConfig has no priority map, and a table    *)
(* that has one for every hook type takes the hooks AddHook is given.       *)

WithPrioMaps == [hookType \in HookTypes |-> EmptyPrioMap]

InitHooks ==
    /\ InitProxy(FALSE, FALSE, 1)
    /\ hooks \in {NewHookConfig, WithPrioMaps}
    /\ Verification \in VerificationPolicies
    /\ hookRun = NoRun
    /\ clientRec = NoClient
    /\ Elsewhere

RunTypes == {OnConfigLoaded, OnIncomingTraffic}
RunArgs == {IncomingArgs(<<1>>), [request |-> <<1>>]}

NextHooks ==
    \/ \E hookType \in RunTypes, prio \in Prios, hookDef \in HookDefs, isHookDef \in BOOLEAN :
            AddHook(hookType, prio, hookDef, isHookDef)
    \/ \E hookType \in RunTypes, args \in RunArgs : RunHooksCall(hookType, args, Verification)

SpecHooks == InitHooks /\ [][NextHooks]_vars

----------------------------------------------------------------------------
(* Hooks that terminate: the hook engine run on an envelope that has the    *)
(* terminate key, false, with hooks that may set it to true.  RunHooks has  *)
(* no termination policy among its parameters, and HookConfig has none among *)
(* its fields: a run is the same run whatever that policy is set to.        *)

TerminateArgs == [request |-> <<1>>, terminate |-> <<>>]

InitTerminate ==
    /\ InitProxy(FALSE, FALSE, 1)
    /\ hooks = WithPrioMaps
    /\ Verification \in VerificationPolicies
    /\ hookRun = NoRun
    /\ clientRec = NoClient
    /\ Elsewhere

NextTerminate ==
    \/ \E hookType \in TrafficHooks, prio \in Prios, hookDef \in TerminatingDefs :
            AddHook(hookType, prio, hookDef, TRUE)
    \/ \E hookType \in TrafficHooks : RunHooksCall(hookType, TerminateArgs, Verification)

SpecTerminate == InitTerminate /\ [][NextTerminate]_vars

----------------------------------------------------------------------------
(* Two threads on one HookConfig: one makes a run of the hooks of a hook    *)
(* type step by step while the other registers hooks and makes runs of its  *)
(* own.                                                                     *)

InitInFlight ==
    /\ InitProxy(FALSE, FALSE, 1)
    /\ hooks = WithPrioMaps
    /\ Verification \in {Ignore, Remove}
    /\ hookRun = NoRun
    /\ clientRec = NoClient
    /\ Elsewhere

NextInFlight ==
    \/ \E prio \in Prios, hookDef \in {"same", "extra"} :
            AddHook(OnIncomingTraffic, prio, hookDef, TRUE)
    \/ RunHooksCall(OnIncomingTraffic, IncomingArgs(<<1>>), Verification)
    \/ RunBegin(OnIncomingTraffic, IncomingArgs(<<1>>), Verification)
    \/ RunIterate
    \/ RunFinish

SpecInFlight == InitInFlight /\ [][NextInFlight]_vars

----------------------------------------------------------------------------
(* Traffic through the hooks: the sequential service above, with hooks      *)
(* registered for the two traffic hook points.                              *)

InitTraffic ==
    /\ InitProxy(FALSE, FALSE, 1)
    /\ hooks = WithPrioMaps
    /\ Verification = Ignore
    /\ hookRun = NoRun
    /\ clientRec = NoClient
    /\ Elsewhere

NextTraffic ==
    \/ \E hookType \in TrafficHooks, prio \in Prios, hookDef \in {"same", "modify"} :
            /\ DOMAIN connClients = {}
            /\ AddHook(hookType, prio, hookDef, TRUE)
    \/ \E g \in Inbounds :
        \/ /\ DOMAIN connClients = {}
           /\ \A h \in Inbounds : pend[h] = Nil
           /\ ConnectRead(g, Reliable)
        \/ ConnectPop(g)
        \/ /\ g \in DOMAIN connClients
           /\ \E up \in Upstream({<<2>>}) : PassThrough(g, <<1>>, up, Reliable)
        \/ /\ g \in DOMAIN connClients
           /\ Disconnect(g, Reliable)

SpecTraffic == InitTraffic /\ [][NextTraffic]_vars

----------------------------------------------------------------------------
(* One Client, made by NewClient and closed any number of times.            *)

InitClient ==
    /\ InitProxy(FALSE, FALSE, 1)
    /\ hooks = NewHookConfig
    /\ Verification = Ignore
    /\ hookRun = NoRun
    /\ \E network \in {"tcp", "unix"}, address \in {"localhost:5432", "/tmp/pg.sock"},
          receiveBufferSize \in (0 - 1)..(DefaultBufferSize + 1), id \in Ids :
          LET made == NewClientRecord(network, address, receiveBufferSize, id)
          IN  clientRec = [made |-> made, client |-> made, connCloses |-> 0, calls |-> 0]
    /\ Elsewhere

NextClient == CloseClient

SpecClient == InitClient /\ [][NextClient]_vars

----------------------------------------------------------------------------
(* The Retry on its own: a Retry is made with any number of retries and its *)
(* Retry is called with a callback whose calls succeed or fail.             *)

InitRetry ==
    /\ InitProxy(FALSE, FALSE, 1)
    /\ hooks = NewHookConfig
    /\ Verification = Ignore
    /\ hookRun = NoRun
    /\ clientRec = NoClient
    /\ Elsewhere

NextRetry ==
    \/ \E retries \in 0..MaxRetries, backoff \in 0..1, backoffMultiplier \in 1..2,
          disableBackoffCaps \in BOOLEAN :
          NewRetry(retries, backoff, backoffMultiplier, disableBackoffCaps)
    \/ \E callbackNil \in BOOLEAN, results \in ResultSeqs(MaxRetries) :
          RetryCall(callbackNil, results)

SpecRetry == InitRetry /\ [][NextRetry]_vars

----------------------------------------------------------------------------
(* The run command, from its start to the end of the process: the upstream  *)
(* may refuse a dial while the pool is filled, the server may fail to       *)
(* start, and a registered signal is sent to the process that runs.         *)

InitRun ==
    /\ \E size \in 1..MaxPool :
          /\ Elastic = FALSE
          /\ ReuseElasticClients = FALSE
          /\ PoolSize = size
    /\ pool = {}
    /\ open = {}
    /\ connClients = <<>>
    /\ pend = [g \in Inbounds |-> Nil]
    /\ crashed = FALSE
    /\ last = Call("Run", 0, "ok", NoPre)
    /\ wire = NoWire
    /\ poolDown = FALSE
    /\ hooks = NewHookConfig
    /\ Verification = Ignore
    /\ hookRun = NoRun
    /\ clientRec = NoClient
    /\ inflight = NoFlight
    /\ retry = NoRetry
    /\ health = NoHealth
    /\ \E config \in Configs : cmd = [NoCmd EXCEPT !.pc = "start", !.config = config]

NextRun ==
    \/ LoadPlugins
    \/ RunOnConfigLoaded
    \/ RunNewPool
    \/ FillPool(Flaky)
    \/ VerifyPool
    \/ RunNewProxy
    \/ RunNewServer
    \/ \E started \in BOOLEAN : ServerRun(started)
    \/ \E sig \in {signals[k] : k \in DOMAIN signals} : Signal(sig)
    \/ HandleSignal
    \/ MainReturns

SpecRun == InitRun /\ [][NextRun]_vars

----------------------------------------------------------------------------
(* The health check on its own: the plugins are loaded, those that have     *)
(* metricsEnabled are added to the metrics merger, and the job runs round   *)
(* after round with plugins whose ping succeeds or fails.                   *)

InitHealth ==
    /\ InitProxy(FALSE, FALSE, 1)
    /\ hooks = NewHookConfig
    /\ Verification = Ignore
    /\ hookRun = NoRun
    /\ clientRec = NoClient
    /\ inflight = NoFlight
    /\ retry = NoRetry
    /\ cmd = NoCmd
    /\ \E metricsEnabled \in SUBSET Plugins :
          health = [plugins |-> Plugins, merger |-> metricsEnabled,
                    pings |-> [p \in Plugins |-> 0]]

NextHealth == \E failing \in SUBSET Plugins : HealthCheck(failing)

SpecHealth == InitHealth /\ [][NextHealth]_vars

----------------------------------------------------------------------------
(* Vocabulary of the properties. *)

Busy == DOMAIN connClients
BusyClients == {g \in Busy : connClients[g] # Nil}
Available == Cardinality(pool)

\* The modes in which a released client is replaced in the pool: fixed mode,
\* and elastic mode with reuse.
ReleasedGoBack == ~Elastic \/ ReuseElasticClients

\* The step just taken is a step of `op` on behalf of inbound g (every action
\* labels the step it takes).
Stepped(op, g) == last'.op = op /\ last'.g = g

\* The step is a Disconnect(g) whose Reconnect dialled successfully.
Dialled == open' \ open # {}

\* The step is a Disconnect(g) whose Reconnect dialled successfully and whose
\* Put the pool took: the pool has not been shut down.
PutBack == Dialled /\ ~poolDown

----------------------------------------------------------------------------
(* C1: in fixed mode the busy clients plus the available clients never      *)
(* exceed the initial pool capacity, whatever calls were made.              *)
C1_FixedCapacity ==
    ~Elastic => Size + Available <= PoolSize

(* C2: pool conservation in fixed mode: busy + available + in-reconnect     *)
(* equals the number of clients created for the proxy.  Disconnect and      *)
(* PassThrough are single steps, so between steps no client is in           *)
(* reconnect.                                                               *)
C2_PoolConservation ==
    ~Elastic => Cardinality(BusyClients) + Available = PoolSize

(* C3: no client id is in the available pool and in the busy map at once,   *)
(* and no client is assigned to two inbound connections.                    *)
C3_OneMembership ==
    /\ \A g \in BusyClients : connClients[g][1] \notin pool
    /\ \A g, h \in BusyClients : g # h => connClients[g] # connClients[h]

\* A client has been released and replaced while another is still busy.
C3_Witness ==
    /\ last.op = "Disconnect" /\ last.ret = "ok"
    /\ BusyClients # {}
    /\ pool # {}

(* C4: in fixed mode every Connect, under any interleaving of the read of   *)
(* the ids and the Pop, either is assigned a client that is present or      *)
(* returns PoolExhausted with the pool empty; none crashes.                 *)
C4_ConnectAssignsOrExhausts ==
    (~Elastic /\ last.op = "Connect") =>
        \/ last.ret = "ok" /\ last.g \in BusyClients
        \/ last.ret = "PoolExhausted" /\ last.g \notin Busy /\ pool = {}

(* C5: in fixed mode a Connect that finds the pool empty returns            *)
(* PoolExhausted in that same step, leaving the busy map and the pool as    *)
(* they were.                                                               *)
C5_ExhaustedReturnsAtOnce ==
    [][\A g \in Inbounds :
        (~Elastic /\ pool = {} /\ pend[g] = Nil
            /\ (Stepped("Connect", g) \/ Stepped("ConnectRead", g)))
        => /\ last' = Call("Connect", g, "PoolExhausted", 0)
           /\ pend'[g] = Nil
           /\ connClients' = connClients
           /\ pool' = pool
           /\ ~crashed']_vars

\* A Connect has just been refused while every client is busy.
C5_Witness ==
    /\ ~Elastic
    /\ last.op = "Connect" /\ last.ret = "PoolExhausted"
    /\ pool = {}
    /\ Busy # {}

(* C6, as stated: where released clients go back to the pool, Disconnect of *)
(* an inbound that holds a client removes the entry, closes the client, and *)
(* puts a freshly dialled client in the pool: one entry fewer, one          *)
(* available client more.                                                   *)
C6_AlwaysPutsFresh ==
    [][\A g \in Inbounds :
        (ReleasedGoBack /\ g \in BusyClients /\ Stepped("Disconnect", g))
        => /\ g \notin DOMAIN connClients'
           /\ Cardinality(DOMAIN connClients') = Size - 1
           /\ connClients[g][1] \notin open'
           /\ Cardinality(pool') = Available + 1
           /\ pool \subseteq pool'
           /\ (pool' \ pool) \subseteq (open' \ open)]_vars

(* C6, amended: the entry is removed and the client closed in every case;   *)
(* the fresh client is put in the pool when the dial succeeds and the pool  *)
(* has not been shut down; when the dial fails, or the pool rejects the Put *)
(* after its Shutdown, the pool is unchanged.                               *)
C6_PutsFreshIfDialled ==
    [][\A g \in Inbounds :
        (ReleasedGoBack /\ g \in BusyClients /\ Stepped("Disconnect", g))
        => /\ g \notin DOMAIN connClients'
           /\ Cardinality(DOMAIN connClients') = Size - 1
           /\ connClients[g][1] \notin open'
           /\ IF PutBack
              THEN /\ Cardinality(pool') = Available + 1
                   /\ pool \subseteq pool'
                   /\ pool' \ pool = open' \ open
              ELSE pool' = pool]_vars

\* A Disconnect that follows a successful Connect of the same inbound (the
\* pool was not empty at that Connect) has put a client back, while another
\* inbound is still served.
C6_Witness ==
    /\ ReleasedGoBack
    /\ last.op = "Disconnect" /\ last.ret = "ok"
    /\ last.pre > 0
    /\ last.g \notin Busy
    /\ pool # {}
    /\ BusyClients # {}

(* C7: in elastic mode without reuse, Disconnect removes the entry and      *)
(* closes the client; the client does not enter the pool, which is left as  *)
(* it was.                                                                  *)
C7_ElasticNoReuseCloses ==
    [][\A g \in Inbounds :
        (Elastic /\ ~ReuseElasticClients /\ Stepped("Disconnect", g))
        => /\ g \notin DOMAIN connClients'
           /\ pool' = pool
           /\ (g \in BusyClients =>
                 /\ connClients[g][1] \notin open'
                 /\ connClients[g][1] \notin pool')]_vars

\* A Disconnect has closed the client of one inbound while another inbound
\* is still served.
C7_Witness ==
    /\ Elastic /\ ~ReuseElasticClients
    /\ last.op = "Disconnect" /\ last.ret = "ok"
    /\ Busy # {}
    /\ pool = {}

(* C9, as stated: a Connect(g) followed at once by Disconnect(g) leaves the *)
(* available pool as large as it was before the Connect, in every mode and  *)
(* whatever the pool held.                                                  *)
C9_RoundTripKeepsSize ==
    [][\A g \in Inbounds :
        (last.op = "Connect" /\ last.g = g /\ last.pre >= 0
            /\ Stepped("Disconnect", g))
        => Cardinality(pool') = last.pre]_vars

(* C9, amended: the pool is as large as before the Connect when the pool    *)
(* was not empty at the Connect and the Disconnect puts a client back (its  *)
(* dial succeeds and the pool has not been shut down), and in elastic mode  *)
(* without reuse; where released clients go back to the pool, a pool that   *)
(* was empty at the Connect ends one client larger, and a Disconnect that   *)
(* puts nothing back leaves it one client short of that.                    *)
C9_RoundTripSize ==
    [][\A g \in Inbounds :
        (last.op = "Connect" /\ last.g = g /\ last.pre >= 0
            /\ Stepped("Disconnect", g))
        => Cardinality(pool') =
              IF ReleasedGoBack
              THEN last.pre + (IF last.pre = 0 THEN 1 ELSE 0)
                            - (IF PutBack THEN 0 ELSE 1)
              ELSE last.pre]_vars

\* A Disconnect that followed the Connect of the same inbound at once, with
\* the pool back at the size it had before the Connect.
C9_Witness ==
    /\ last.op = "Disconnect" /\ last.ret = "ok"
    /\ last.pre > 0
    /\ Available = last.pre

(* C8: in fixed mode with a pool of one client and an upstream that accepts *)
(* every dial, sequential inbound connections (Connect, PassThrough any     *)
(* number of times, Disconnect) all succeed: no Connect returns             *)
(* PoolExhausted or another error, and nothing crashes.                     *)
C8_SequentialNeverFails ==
    (~Elastic /\ PoolSize = 1) =>
        /\ ~crashed
        /\ last.op = "Connect" => (last.ret = "ok" /\ last.g \in BusyClients)

\* A Connect served by a client other than the one NewProxy dialled: an
\* earlier connection has come and gone.
C8_Witness ==
    /\ ~Elastic /\ PoolSize = 1
    /\ last.op = "Connect" /\ last.ret = "ok"
    /\ connClients[last.g] # <<1>>

(* C10: a PassThrough sends upstream exactly the bytes read from the        *)
(* inbound and writes to the inbound exactly the bytes received from the    *)
(* upstream.                                                                *)
C10_Verbatim ==
    (last.op = "PassThrough" /\ last.ret \in {"ok", "eof"}) =>
        /\ wire.sent = wire.read
        /\ wire.wrote = wire.recv

\* A full request went up, and a response shorter than the receive buffer
\* came back.
C10_Witness ==
    /\ last.op = "PassThrough" /\ last.ret = "ok"
    /\ Len(wire.sent) = MaxMsgLen
    /\ Len(wire.wrote) = 1

----------------------------------------------------------------------------
(* Traffic through the hooks, reconnection, shutdown. *)

\* The step is a PassThrough(g) that went as far as the send.
PassedThrough == last.op = "PassThrough" /\ last.ret \in {"ok", "eof"}

(* C11: the bytes a PassThrough sends upstream are the request of the       *)
(* envelope the incoming hook run returned: a request a hook has modified   *)
(* is what the upstream receives.                                           *)
C11_SendsHookRequest ==
    PassedThrough => wire.sent = SendsHookResult(wire.read, wire.fromClient)

\* Every hook registered for the two traffic hook points returns its input.
AllReturnInput(table) ==
    \A hookType \in TrafficHooks :
        \A prio \in DOMAIN GetHook(table, hookType) : table[hookType][prio] = "same"

(* C12: a PassThrough through hooks that all return their input sends the   *)
(* same bytes upstream, writes the same bytes to the inbound and ends with  *)
(* the same envelopes as that PassThrough with no hook registered.          *)
C12_IdentityHooksChangeNothing ==
    [][\A g \in Inbounds :
        (AllReturnInput(hooks) /\ Stepped("PassThrough", g) /\ last'.ret = "ok"
            /\ wire'.recv # <<>>)
        => LET bare == IncomingRun(WithPrioMaps, wire'.read, <<>>)
               back == OutgoingRun(WithPrioMaps, wire'.recv, FALSE, <<>>)
           IN  /\ wire'.sent = Sends(wire'.read, bare.ret)
               /\ wire'.wrote = wire'.recv
               /\ wire'.fromClient = bare.ret
               /\ wire'.fromServer = back.ret]_vars

(* C13: in a PassThrough that writes a response back, the events are, in    *)
(* this order: the hooks OnTrafficFromClient and OnTrafficToServer, the     *)
(* send, the receive, the hooks OnTrafficFromServer and OnTrafficToClient,  *)
(* the write: four hook runs, two before the send and two after the         *)
(* receive.                                                                 *)
C13_FourHooksInOrder ==
    (last.op = "PassThrough" /\ last.ret = "ok" /\ wire.recv # <<>>) =>
        /\ Len(wire.events) = 7
        /\ \A i \in {1, 2, 5, 6} : wire.events[i] \notin {"Send", "Receive", "Write"}
        /\ wire.events[3] = "Send"
        /\ wire.events[4] = "Receive"
        /\ wire.events[7] = "Write"

(* C14: when the upstream answers the Receive of a PassThrough with EOF,    *)
(* the old client is closed and the inbound is mapped to a newly dialled    *)
(* client with another id; the old client is neither busy nor available.    *)
C14_EOFReplacesClient ==
    [][\A g \in Inbounds :
        (g \in BusyClients /\ Stepped("PassThrough", g) /\ last'.ret = "eof")
        => /\ g \in DOMAIN connClients'
           /\ connClients'[g] # Nil
           /\ connClients'[g] # connClients[g]
           /\ connClients'[g][1] \in open'
           /\ connClients[g][1] \notin open'
           /\ connClients[g][1] \notin pool'
           /\ \A h \in DOMAIN connClients' : connClients'[h] # connClients[g]]_vars

(* C15: when the send of a PassThrough fails, the proxy does as for EOF:    *)
(* the failed client is closed and the inbound is mapped to a newly dialled *)
(* client.                                                                  *)
C15_SendErrorReplacesClient ==
    [][\A g \in Inbounds :
        (g \in BusyClients /\ Stepped("PassThrough", g) /\ last'.ret = "SendError")
        => /\ g \in DOMAIN connClients'
           /\ connClients'[g] # connClients[g]
           /\ connClients[g][1] \notin open']_vars

(* C16: when Shutdown has returned, every client that was busy and every    *)
(* client that was available has been closed, and the pool is empty: no     *)
(* upstream connection is open.                                             *)
C16_ShutdownClosesAll ==
    last.op = "Shutdown" => (pool = {} /\ open = {})

(* C17: once Shutdown has been called no Connect assigns a client to an     *)
(* inbound, in fixed mode and in elastic mode.                              *)
C17_NoConnectAfterShutdown ==
    [][\A g \in Inbounds :
        (poolDown /\ Stepped("Connect", g))
        => (last'.ret # "ok" /\ connClients' = connClients)]_vars

----------------------------------------------------------------------------
(* The Client record and the hook engine. *)

(* C18: Close is idempotent: after the first Close every field of the       *)
(* client is zero, further Closes change nothing, and the connection has    *)
(* been closed exactly once however many times Close was called.            *)
C18_CloseIdempotent ==
    /\ clientRec.calls >= 1 =>
          (clientRec.client = ZeroClient /\ clientRec.connCloses = 1)
    /\ clientRec.calls = 0 => clientRec.connCloses = 0

\* Close has been called as many times as the model lets it, on a client
\* that was given a receive buffer size of its own.
C18_Witness ==
    /\ clientRec.calls = MaxCloses
    /\ clientRec.made.Conn # NoConn
    /\ clientRec.made.ReceiveBufferSize # DefaultBufferSize

(* C19: in every run of the hooks of one hook type the invokers are called  *)
(* in strictly ascending order of priority, each at most once, whatever the *)
(* order in which the hooks were registered or the map yields them.         *)
C19_AscendingPriority ==
    \A i, j \in 1..Len(hookRun.calls) :
        i < j => hookRun.calls[i].prio < hookRun.calls[j].prio

\* A run has called as many hooks as may be registered.
C19_Witness ==
    /\ last.op = "RunHooks" /\ last.ret = "ok"
    /\ Len(hookRun.calls) = MaxHooks

(* C20, as stated: the keys of every accepted result are keys of the        *)
(* envelope its invoker was called with.                                    *)
C20_ResultWithinInput ==
    \A i \in 1..Len(hookRun.calls) :
        hookRun.calls[i].accepted =>
            DOMAIN hookRun.calls[i].result \subseteq DOMAIN hookRun.calls[i].input

(* C20, amended: the keys of every accepted result are keys of the args of  *)
(* the run, though not always of the envelope its invoker was called with;  *)
(* the envelope the run returns has no key that the args lack.              *)
C20_ResultWithinArgs ==
    /\ \A i \in 1..Len(hookRun.calls) :
          hookRun.calls[i].accepted =>
              DOMAIN hookRun.calls[i].result \subseteq DOMAIN hookRun.args
    /\ DOMAIN hookRun.ret \subseteq DOMAIN hookRun.args

\* A run in which an accepted result has a key that its invoker was not
\* given: an earlier accepted result had dropped it.
C20_Witness ==
    /\ last.op = "RunHooks" /\ last.ret = "ok"
    /\ \E i \in 1..Len(hookRun.calls) :
          /\ hookRun.calls[i].accepted
          /\ ~(DOMAIN hookRun.calls[i].result \subseteq DOMAIN hookRun.calls[i].input)
    /\ hookRun.ret # EmptySignature

----------------------------------------------------------------------------
(* The verification policies, determinism, termination, registration. *)

\* A run of hooks has returned.
Returned == last.op = "RunHooks" /\ last.ret = "ok"

(* C21: a run of a hook type for which no hook is registered returns the    *)
(* args envelope unchanged, same keys and same values, under every          *)
(* verification policy.                                                     *)
C21_NoHooksReturnArgs ==
    Returned /\ hookRun.calls = <<>> => hookRun.ret = hookRun.args

\* The envelope accumulated before the call at position i of a run: the last
\* accepted result of the calls before it, or the args of the run when none
\* has been accepted yet.
Accumulated(run, i) ==
    LET accepted == {j \in 1..(i - 1) : run.calls[j].accepted}
    IN  IF accepted = {} THEN run.args
        ELSE run.calls[CHOOSE j \in accepted : \A k \in accepted : k <= j].result

\* The hooks registered for the hook type of the run that a step makes.
Registered == DOMAIN GetHook(hooks, hookRun'.hookType)

\* Under Ignore a run calls every registered hook, each with the envelope
\* accumulated so far, returns, and leaves the registered hooks as they were.
IgnoreContinues ==
    /\ last'.ret = "ok"
    /\ Len(hookRun'.calls) = Cardinality(Registered)
    /\ \A i \in 1..Len(hookRun'.calls) :
          hookRun'.calls[i].input = Accumulated(hookRun', i)
    /\ hooks' = hooks

(* C22, as stated: under Ignore, for every hook type, a result that fails   *)
(* verification does not change the envelope seen downstream: the next hook *)
(* is called with the last accepted result, or with the args when none has  *)
(* been accepted, the run continues with the remaining hooks, and the       *)
(* registered hooks are unchanged.                                          *)
C22_IgnoreContinuesAlways ==
    [][Stepped("RunHooks", 0) /\ hookRun'.verification = Ignore
          => IgnoreContinues]_vars

(* C22, amended: that holds for every hook type other than OnConfigLoaded;  *)
(* a run of OnConfigLoaded panics at the first result that fails            *)
(* verification, calling no hook after it, and leaves the registered hooks  *)
(* unchanged.                                                               *)
C22_IgnoreContinuesButConfigLoaded ==
    [][Stepped("RunHooks", 0) /\ hookRun'.verification = Ignore
          => IF hookRun'.hookType # OnConfigLoaded THEN IgnoreContinues
             ELSE /\ hooks' = hooks
                  /\ \A i \in 1..Len(hookRun'.calls) :
                        /\ hookRun'.calls[i].input = Accumulated(hookRun', i)
                        /\ i < Len(hookRun'.calls) => hookRun'.calls[i].accepted
                  /\ \/ last'.ret = "panic" /\ ~hookRun'.calls[Len(hookRun'.calls)].accepted
                     \/ /\ last'.ret = "ok"
                        /\ Len(hookRun'.calls) = Cardinality(Registered)
                        /\ \A i \in 1..Len(hookRun'.calls) : hookRun'.calls[i].accepted]_vars

\* A run under Ignore of a traffic hook type has called two hooks: the result
\* of the first failed verification and the second was called with the args.
C22_Witness ==
    /\ Returned /\ hookRun.verification = Ignore
    /\ hookRun.hookType = OnIncomingTraffic
    /\ Len(hookRun.calls) = 2
    /\ ~hookRun.calls[1].accepted
    /\ hookRun.calls[2].input = hookRun.args

\* The priorities of the hooks a run called whose result passed, or failed,
\* verification.
Passed(run) == {run.calls[i].prio : i \in {j \in 1..Len(run.calls) : run.calls[j].accepted}}
Failed(run) == {run.calls[i].prio : i \in {j \in 1..Len(run.calls) : ~run.calls[j].accepted}}

\* The hooks of the other hook types are as they were before the step.
OthersUntouched ==
    /\ DOMAIN hooks' = DOMAIN hooks
    /\ \A hookType \in DOMAIN hooks :
          hookType # hookRun'.hookType => hooks'[hookType] = hooks[hookType]

\* Under Remove a run calls every registered hook; after it the hooks that
\* failed are not registered, the hooks that passed are, with the invoker they
\* had, so that the registered hooks are exactly those that passed.
RemoveDropsFailed ==
    /\ Passed(hookRun') \cup Failed(hookRun') = Registered
    /\ DOMAIN GetHook(hooks', hookRun'.hookType) = Passed(hookRun')
    /\ \A prio \in Passed(hookRun') :
          GetHook(hooks', hookRun'.hookType)[prio] = GetHook(hooks, hookRun'.hookType)[prio]
    /\ OthersUntouched

(* C23, as stated: under Remove, for every hook type, after a run every     *)
(* hook whose result failed verification in that run is no longer           *)
(* registered for the hook type and every hook whose result passed still    *)
(* is, so a later run calls exactly the hooks that passed; the hooks of the *)
(* other hook types are untouched.                                          *)
C23_RemoveDropsFailedAlways ==
    [][Stepped("RunHooks", 0) /\ hookRun'.verification = Remove
          => RemoveDropsFailed]_vars

(* C23, amended: that holds for every hook type other than OnConfigLoaded;  *)
(* a run of OnConfigLoaded panics at the first result that fails            *)
(* verification and removes nothing: the hook that failed is still          *)
(* registered, as is every other hook.                                      *)
C23_RemoveDropsFailedButConfigLoaded ==
    [][Stepped("RunHooks", 0) /\ hookRun'.verification = Remove
          => IF hookRun'.hookType # OnConfigLoaded
             THEN last'.ret = "ok" /\ RemoveDropsFailed
             ELSE IF Failed(hookRun') = {}
             THEN last'.ret = "ok" /\ RemoveDropsFailed
             ELSE last'.ret = "panic" /\ hooks' = hooks]_vars

\* A run under Remove of a traffic hook type has called two hooks, one whose
\* result passed and one whose result failed, and only the first is still
\* registered.
C23_Witness ==
    /\ Returned /\ hookRun.verification = Remove
    /\ hookRun.hookType = OnIncomingTraffic
    /\ Len(hookRun.calls) = 2
    /\ Passed(hookRun) # {} /\ Failed(hookRun) # {}
    /\ DOMAIN GetHook(hooks, OnIncomingTraffic) = Passed(hookRun)

\* Under Abort a run in which a result fails verification ends with that call:
\* the hooks called are the registered hooks up to the one that failed, the
\* run returns the envelope accumulated before it, and the registered hooks
\* are as they were.
AbortEndsRun ==
    LET n == Len(hookRun'.calls)
    IN  /\ last'.ret = "ok"
        /\ \A i \in 1..(n - 1) : hookRun'.calls[i].accepted
        /\ Passed(hookRun') \cup Failed(hookRun')
              = {prio \in Registered : prio <= hookRun'.calls[n].prio}
        /\ hookRun'.ret = Accumulated(hookRun', n)
        /\ hooks' = hooks

(* C24, as stated: under Abort, for every hook type, the first hook whose   *)
(* result fails verification ends the run: no hook of a higher priority     *)
(* number is called, the run returns the last accepted result, or the args  *)
(* if the failing hook was the first, and the registered hooks are          *)
(* unchanged.                                                               *)
C24_AbortEndsRunAlways ==
    [][(Stepped("RunHooks", 0) /\ hookRun'.verification = Abort
                                  /\ Failed(hookRun') # {})
          => AbortEndsRun]_vars

(* C24, amended: that holds for every hook type other than OnConfigLoaded;  *)
(* a run of OnConfigLoaded ends at the first result that fails verification *)
(* too, with the registered hooks unchanged, but by a panic: it returns no  *)
(* envelope.                                                                *)
C24_AbortEndsRunButConfigLoaded ==
    [][(Stepped("RunHooks", 0) /\ hookRun'.verification = Abort
                                  /\ Failed(hookRun') # {})
          => IF hookRun'.hookType # OnConfigLoaded THEN AbortEndsRun
             ELSE LET n == Len(hookRun'.calls)
                  IN  /\ last'.ret = "panic"
                      /\ \A i \in 1..(n - 1) : hookRun'.calls[i].accepted
                      /\ Passed(hookRun') \cup Failed(hookRun')
                            = {prio \in Registered : prio <= hookRun'.calls[n].prio}
                      /\ hooks' = hooks]_vars

\* A run under Abort of a traffic hook type with two hooks registered: the
\* result of the first failed verification, the second was not called, and
\* the run returned the args.
C24_Witness ==
    /\ Returned /\ hookRun.verification = Abort
    /\ hookRun.hookType = OnIncomingTraffic
    /\ Cardinality(DOMAIN GetHook(hooks, OnIncomingTraffic)) = 2
    /\ Len(hookRun.calls) = 1
    /\ ~hookRun.calls[1].accepted
    /\ hookRun.ret = hookRun.args

\* A run of hooks has been made under PassDown.
RanPassDown == last.op = "RunHooks" /\ hookRun.verification = PassDown

(* C25: under PassDown a result that fails verification leaves the          *)
(* accumulated envelope unchanged and the run continues: every registered   *)
(* hook is called, each with the last accepted result, or with the args     *)
(* when none has been accepted, and a run in which every result fails       *)
(* returns the args.                                                        *)
C25_PassDownKeepsAccumulated ==
    RanPassDown =>
        /\ last.ret = "ok"
        /\ Passed(hookRun) \cup Failed(hookRun) = DOMAIN GetHook(hooks, hookRun.hookType)
        /\ \A i \in 1..Len(hookRun.calls) :
              hookRun.calls[i].input = Accumulated(hookRun, i)
        /\ hookRun.calls # <<>> => hookRun.ret = Accumulated(hookRun, Len(hookRun.calls) + 1)

(* C26: under PassDown the result of each hook is what the next hook is     *)
(* called with, whether it passes verification or not: a result with a key  *)
(* that the args lack is passed down all the same.                          *)
C26_PassDownUnverified ==
    RanPassDown =>
        \A i \in 2..Len(hookRun.calls) :
            hookRun.calls[i].input = hookRun.calls[i - 1].result

(* C27: a run panics exactly when it is a run of OnConfigLoaded in which a  *)
(* result fails verification: such a failure is fatal under every           *)
(* verification policy, the run returning no envelope, and no run of        *)
(* another hook type panics.                                                *)
C27_ConfigLoadedFailureFatal ==
    last.op = "RunHooks" =>
        (last.ret = "panic"
            <=> hookRun.hookType = OnConfigLoaded /\ Failed(hookRun) # {})

(* C28: a run of hooks is deterministic: the hooks it calls, their order,   *)
(* the envelope each is called with, the envelope returned (or the panic)   *)
(* and the hooks left registered are the same for every order in which the  *)
(* map yields the priorities: they depend only on the registered hooks of   *)
(* the hook type, the args and the policy.                                  *)
C28_Deterministic ==
    [][Stepped("RunHooks", 0)
          => \A ranged \in Orders(Registered) :
                \E run \in {RunHooks(hooks, hookRun'.hookType, hookRun'.args,
                                      hookRun'.verification, ranged)} :
                    /\ hookRun' = Ran(hookRun'.hookType, hookRun'.args,
                                      hookRun'.verification, run)
                    /\ hooks' = run.hooks
                    /\ crashed' = run.panic]_vars

\* A run has called two hooks with different invokers: the map could have
\* yielded them in two orders, and the second was called with another
\* envelope than the first.
C28_Witness ==
    /\ Returned
    /\ Len(hookRun.calls) = 2
    /\ hookRun.calls[1].input # hookRun.calls[2].input
    /\ hookRun.calls[1].result # hookRun.calls[2].result

\* The result of a call passed verification and has terminate set to true.
Terminates(call) ==
    /\ call.accepted
    /\ "terminate" \in DOMAIN call.result
    /\ call.result["terminate"] = <<1>>

(* C29: with the termination policy Stop, when the verified result of a     *)
(* hook sets terminate to true, no hook of a later priority is called in    *)
(* that run and the terminating result is what the run returns.  (RunHooks  *)
(* takes no termination policy: every run is also a run under Stop.)        *)
C29_StopEndsRun ==
    last.op = "RunHooks" =>
        \A i \in 1..Len(hookRun.calls) :
            Terminates(hookRun.calls[i]) =>
                /\ i = Len(hookRun.calls)
                /\ hookRun.ret = hookRun.calls[i].result

\* What the table holds at (hookType, prio): the invoker, or nothing.
Slot(table, hookType, prio) ==
    IF prio \in DOMAIN GetHook(table, hookType)
    THEN <<GetHook(table, hookType)[prio]>> ELSE <<>>

(* C30: AddHook of an invoker succeeds for every hook type, one that has no *)
(* hook registered yet included: it does not panic, afterwards the slot     *)
(* (hook type, priority) holds that invoker, whether or not the slot was    *)
(* occupied, and every other slot is as it was.                             *)
C30_AddHookSucceeds ==
    [][\A hookType \in HookTypes, prio \in Prios, hookDef \in HookDefs :
          AddHook(hookType, prio, hookDef, TRUE)
              => /\ last'.ret = "ok" /\ ~crashed'
                 /\ Slot(hooks', hookType, prio) = <<hookDef>>
                 /\ \A other \in HookTypes, p \in Prios :
                       <<other, p>> # <<hookType, prio>>
                           => Slot(hooks', other, p) = Slot(hooks, other, p)]_vars

----------------------------------------------------------------------------
(* Failed dials, absent clients. *)

(* C36: in elastic mode a Connect that finds the pool empty never returns   *)
(* PoolExhausted: it dials a new client and assigns it to the inbound; when *)
(* the dial fails it returns an error, stores nothing in the busy map and   *)
(* does not crash.                                                          *)
C36_ElasticConnectDials ==
    [][\A g \in Inbounds :
          (Stepped("Connect", g) /\ Elastic /\ pool = {} /\ pend[g] = Nil)
              => /\ last'.ret # "PoolExhausted"
                 /\ ~crashed'
                 /\ IF Dialled
                    THEN /\ last'.ret = "ok"
                         /\ g \in DOMAIN connClients'
                         /\ connClients'[g] # Nil
                         /\ open' \ open = {connClients'[g][1]}
                    ELSE /\ last'.ret \notin {"ok", "panic"}
                         /\ connClients' = connClients]_vars

(* C37: in every reachable state every value of the busy map is a live,     *)
(* connected client: not nil, with an id, its connection open.  Neither     *)
(* Connect nor the reconnect of a PassThrough on EOF stores a nil, closed   *)
(* or never connected client, even when the dial of the reconnect fails.    *)
C37_BusyClientsLive ==
    \A g \in DOMAIN connClients : Connected(open, connClients[g])

(* C38: a PassThrough for an inbound that has no entry in the busy map      *)
(* returns ClientNotFound: it reads nothing from the inbound, calls neither *)
(* traffic callback, sends nothing upstream, and leaves the busy map and    *)
(* the pool as they were.                                                   *)
C38_NotFoundTouchesNothing ==
    [][\A g \in Inbounds :
          (Stepped("PassThrough", g) /\ g \notin DOMAIN connClients)
              => /\ last'.ret = "ClientNotFound"
                 /\ wire' = NoWire
                 /\ hookRun' = NoRun
                 /\ connClients' = connClients
                 /\ pool' = pool /\ open' = open
                 /\ ~crashed']_vars

\* A PassThrough has returned ClientNotFound while another inbound holds a
\* client and the pool has a client available.
C38_Witness ==
    /\ last.op = "PassThrough" /\ last.ret = "ClientNotFound"
    /\ last.g \notin DOMAIN connClients
    /\ BusyClients # {}
    /\ pool # {}

----------------------------------------------------------------------------
(* A run in flight, the Retry, the run command. *)

\* The run in flight calls no slot that has been deleted since it started.
NeverCallsDeleted == ~(last'.op = "RunIterate" /\ last'.ret = "panic")

\* The invokers the run in flight has called are those that were registered,
\* at the priorities it has gone through, when it started.
CallsItsSnapshot ==
    inflight'.active =>
        \A i \in 1..Len(inflight'.invoked) :
            /\ inflight'.priorities[i] \in DOMAIN inflight'.started
            /\ inflight'.invoked[i] = inflight'.started[inflight'.priorities[i]]

\* No other thread writes the hook table while the run is in flight: no
\* AddHook assigns a slot and no other run deletes one.
NoWriteInFlight ==
    inflight.active =>
        /\ last'.op # "AddHook"
        /\ last'.op = "RunHooks" => hooks' = hooks

(* C31: a run of hooks that is in flight while another thread adds a hook   *)
(* or removes hooks of the same hook type sees a stable snapshot: it calls  *)
(* exactly the invokers registered when it started, never calls a slot      *)
(* deleted in the meantime, and the hook table is not written while the run *)
(* reads it.                                                                *)
C31_StableSnapshot ==
    [][NeverCallsDeleted /\ CallsItsSnapshot /\ NoWriteInFlight]_vars

(* C32: a Retry made with retries = 0 has Retries = 1, and its Retry calls  *)
(* the callback exactly once, sleeps before no attempt and returns the      *)
(* value and the error of that one call.                                    *)
C32_ZeroRetriesOneCall ==
    (retry.state # "none" /\ retry.given = 0) =>
        /\ retry.Retries = 1
        /\ (retry.state = "done" /\ last.ret = "ok") =>
              /\ Len(retry.calls) = 1
              /\ retry.sleeps = <<>>
              /\ retry.value = retry.calls[1].value
              /\ retry.err = retry.calls[1].err

\* A Retry made with retries = 0 whose callback failed: it was not retried.
C32_Witness ==
    /\ retry.given = 0
    /\ retry.state = "done"
    /\ last.op = "Retry" /\ last.ret = "ok"
    /\ Len(retry.calls) = 1
    /\ retry.err = "refused"
    /\ retry.Backoff = 1

\* Where the first event of this name is among the events, 0 if nowhere.
Pos(name) ==
    LET at == {k \in DOMAIN cmd.events : cmd.events[k].ev = name}
    IN  IF at = {} THEN 0 ELSE CHOOSE k \in at : \A j \in at : k <= j

\* The events of a startup, in the order of the claim.
StartupOrder ==
    <<"LoadPlugins", "OnConfigLoaded", "NewPool", "OnNewPool", "NewProxy",
      "OnNewProxy", "NewServer", "OnNewServer", "ServerRun">>

\* An event of the startup has happened only after the one before it.
EachAfterTheOneBefore ==
    \A n \in 2..Len(StartupOrder) :
        Pos(StartupOrder[n]) > 0
            => /\ Pos(StartupOrder[n - 1]) > 0
               /\ Pos(StartupOrder[n - 1]) < Pos(StartupOrder[n])

\* A client is put into the pool between NewPool and OnNewPool, and right
\* after the OnNewClient hooks have run for it.
ClientsWhilePoolFills ==
    \A k \in DOMAIN cmd.events :
        cmd.events[k].ev \in {"OnNewClient", "Put"}
            => /\ Pos("NewPool") > 0 /\ Pos("NewPool") < k
               /\ Pos("OnNewPool") > 0 => k < Pos("OnNewPool")
               /\ cmd.events[k].ev = "Put"
                     => cmd.events[k - 1] = ClientEv("OnNewClient", cmd.events[k].id)

(* C33: the events of a startup happen in this order: the plugins are       *)
(* loaded, the OnConfigLoaded hooks run, the pool is created and filled     *)
(* (the OnNewClient hooks run for a client before it is put), the OnNewPool *)
(* hooks run, the proxy is created and the OnNewProxy hooks run, the server *)
(* is created and the OnNewServer hooks run, and then the server runs.      *)
C33_StartupInOrder == EachAfterTheOneBefore /\ ClientsWhilePoolFills

\* The fill is over.
AfterFill == cmd.pc \in {"pooled", "proxied", "served", "running", "exited"}

(* C34: a pool that has not the configured number of clients after the fill *)
(* ends the process with exit code 2 once the plugin registry is shut down: *)
(* the OnNewPool hooks are not run, and no proxy or server is created or    *)
(* started.  The process ends with that code in no other case.              *)
C34_ShortPoolExits ==
    /\ (AfterFill /\ Cardinality(pool) # PoolSize) =>
          /\ cmd.pc = "exited"
          /\ cmd.exit = FailedToInitializePool
          /\ cmd.events[Len(cmd.events)] = Ev("RegistryShutdown")
          /\ \A k \in DOMAIN cmd.events :
                 cmd.events[k].ev \notin {"OnNewPool", "NewProxy", "OnNewProxy", "NewServer",
                                          "OnNewServer", "ServerRun", "ServerShutdown"}
    /\ cmd.exit = FailedToInitializePool => Cardinality(pool) # PoolSize

\* One dial of two failed: the pool has one client of two, and the process
\* has ended.
C34_Witness ==
    /\ cmd.pc = "exited"
    /\ cmd.exit = FailedToInitializePool
    /\ PoolSize = 2
    /\ Cardinality(pool) = 1
    /\ last.op = "VerifyPool"

\* What has happened since the server runs.
SinceServerRuns == SubSeq(cmd.events, Pos("ServerRun") + 1, Len(cmd.events))

\* The shutdown sequence, up to the exit.
ShutdownSequence ==
    <<Ev("OnSignal"), Ev("SchedulerClear"), Ev("MergerStop"), Ev("ServerShutdown"),
      Ev("RegistryShutdown")>>

(* C39: once a registered signal is received the shutdown sequence runs     *)
(* once and in order (OnSignal hooks, health check scheduler cleared,       *)
(* metrics merger stopped, server shut down, plugin registry shut down),    *)
(* no step of it twice, and the process ends after all of it with code 0.   *)
C39_SignalShutsDownInOrder ==
    cmd.signal # "" =>
        /\ Len(SinceServerRuns) <= Len(ShutdownSequence)
        /\ SinceServerRuns = SubSeq(ShutdownSequence, 1, Len(SinceServerRuns))
        /\ cmd.pc = "exited" =>
              /\ SinceServerRuns = ShutdownSequence
              /\ cmd.exit = ExitClean

(* C35: the health check evicts a plugin on two failed pings in a row and   *)
(* on no less: a plugin whose latest pings are one failure, or a failure    *)
(* and then a success, is in the registry, and a plugin whose two latest    *)
(* pings failed is in neither the registry nor the metrics merger.          *)
C35_EvictsOnSecondFailure ==
    \A p \in DOMAIN health.pings :
        /\ health.pings[p] < 2 => p \in health.plugins
        /\ health.pings[p] >= 2 => p \notin health.plugins /\ p \notin health.merger

====
